---- MODULE Spec2Model ----
(***************************************************************************)
(* Model of server.js: the four poll routes (GET /, POST /, GET /logs,     *)
(* POST /reset) of the fastify application, the storage helper `db` they   *)
(* await, and the reply each handler sends.                                *)
(*                                                                         *)
(* Every handler awaits the storage helper at most once.  A request is     *)
(* therefore modelled in two steps: the synchronous prefix of the handler  *)
(* (reading request.body, choosing the storage call) and the completion    *)
(* (the storage operation, applied atomically, followed by the rest of the *)
(* handler, which reads only its own locals).  Requests of different       *)
(* slots interleave between the two steps.                                 *)
(*                                                                         *)
(* The storage helper (./src/<data.database>) is not part of the source    *)
(* at hand; its four operations are modelled from the specification.       *)
(* The `raw` query flag only selects JSON or a rendered view of the same   *)
(* params and is left out, as is the seo object.                           *)
(***************************************************************************)
EXTENDS Integers, Sequences, FiniteSets, TLC

\* Number of request slots that can be in flight at once.
NReq == 2
\* Cap on the length of the vote log.
MaxVotes == 2

Req == 1..NReq

(***************************************************************************)
(* JavaScript values.                                                      *)
(***************************************************************************)
\* The value of a property that is not there.
Undefined == "<undefined>"
\* params.error = null
Null == "<null>"
\* data.errorMessage
ErrorMessage == "data.errorMessage"

\* JavaScript truthiness of a string-or-undefined value.
Truthy(v) == v # Undefined /\ v # ""

\* v.length < 1, for a string v.
LengthLt1(v) == v = ""

\* What a storage operation resolves to: rows, or a falsy value.
Falsy == [ok |-> FALSE, rows |-> <<>>]
Rows(s) == [ok |-> TRUE, rows |-> s]

\* request.body.language values: absent, empty, two options, a stranger.
Languages == {Undefined, "", "go", "rust", "zig"}
\* request.body.key values.
Keys == {Undefined, "", "secret", "wrong"}
\* process.env.ADMIN_KEY values.
AdminKeys == {Undefined, "", "secret"}

\* request.body is undefined when the request carries no payload.
NoBody == [present |-> FALSE, language |-> Undefined, key |-> Undefined]
VoteBodies == {NoBody} \cup
    {[present |-> TRUE, language |-> l, key |-> Undefined] : l \in Languages}
ResetBodies == {NoBody} \cup
    {[present |-> TRUE, language |-> Undefined, key |-> k] : k \in Keys}

\* The option tables the storage can hold at start.
InitialChoices == { <<>>,
    <<[language |-> "go", picks |-> 0], [language |-> "rust", picks |-> 0]>> }

VARIABLES choices, log, adminKey, pc, req, reply

vars == <<choices, log, adminKey, pc, req, reply>>

(***************************************************************************)
(* The storage helper: each operation maps the stored tables to the new    *)
(* tables and the value it resolves to.                                    *)
(***************************************************************************)
Outcome(ch, lg, res) == [choices |-> ch, log |-> lg, result |-> res]

\* A storage operation that fails changes nothing and resolves falsy.
StorageFailure(ch, lg) == Outcome(ch, lg, Falsy)

getOptions(ch, lg) == Outcome(ch, lg, Rows(ch))

\* Faulty variant of processVote: the tally is raised, the log entry is lost.
processVoteUnlogged(ch, lg, vote) ==
    Outcome([i \in DOMAIN ch |->
               IF ch[i].language = vote
               THEN [ch[i] EXCEPT !.picks = @ + 1] ELSE ch[i]],
            lg,
            Rows([i \in DOMAIN ch |->
               IF ch[i].language = vote
               THEN [ch[i] EXCEPT !.picks = @ + 1] ELSE ch[i]]))

processVote(ch, lg, vote) ==
    LET hit == \E i \in DOMAIN ch : ch[i].language = vote
        ch2 == [i \in DOMAIN ch |->
                  IF ch[i].language = vote
                  THEN [ch[i] EXCEPT !.picks = @ + 1] ELSE ch[i]]
        lg2 == IF hit THEN Append(lg, [choice |-> vote]) ELSE lg
    IN  Outcome(ch2, lg2, Rows(ch2))

getLogs(ch, lg) == Outcome(ch, lg, Rows(lg))

clearHistory(ch, lg) ==
    Outcome([i \in DOMAIN ch |-> [ch[i] EXCEPT !.picks = 0]], <<>>, Rows(<<>>))

\* The storage call `op` with argument `arg`, succeeding or failing.
Storage(op, arg, ok, ch, lg) ==
    IF ~ok THEN StorageFailure(ch, lg)
    ELSE CASE op = "getOptions"   -> getOptions(ch, lg)
           [] op = "processVote"  -> processVote(ch, lg, arg)
           [] op = "getLogs"      -> getLogs(ch, lg)
           [] op = "clearHistory" -> clearHistory(ch, lg)

(***************************************************************************)
(* The handlers.                                                           *)
(***************************************************************************)
\* options.map((choice) => choice.language) and ... choice.picks
MapLanguage(options) == [i \in DOMAIN options |-> options[i].language]
MapPicks(options) == [i \in DOMAIN options |-> options[i].picks]

\* A reply: the request it answers, the storage call the handler made and
\* what it resolved to, the status, and the params sent.
BaseReply(route, body) ==
    [route |-> route, body |-> body, op |-> "none", result |-> Falsy,
     status |-> 200, failed |-> FALSE, error |-> Undefined,
     results |-> FALSE, setup |-> FALSE, hasOptions |-> FALSE,
     optionNames |-> <<>>, optionCounts |-> <<>>, optionHistory |-> Falsy]

NoReply == BaseReply("none", NoBody)

\* Reading a property of an undefined request.body throws a TypeError
\* before any await; fastify answers the rejected handler with a 500.
ThrownReply(route, body) == [BaseReply(route, body) EXCEPT !.status = 500]

NoReq == [route |-> "none", body |-> NoBody, op |-> "none", arg |-> Undefined]

\* Faulty variant of HomeCall: the home route calls the clearing helper.
HomeCallClears == "clearHistory"

\* GET /: the storage call, and the rest of the handler.
HomeCall == "getOptions"

HomeReply(body, options) ==
    [BaseReply("GET /", body) EXCEPT
        !.op = HomeCall, !.result = options,
        !.hasOptions = options.ok,
        !.optionNames = IF options.ok THEN MapLanguage(options.rows) ELSE <<>>,
        !.optionCounts = IF options.ok THEN MapPicks(options.rows) ELSE <<>>,
        !.error = IF options.ok THEN Undefined ELSE ErrorMessage,
        !.setup = options.ok /\ Len(options.rows) < 1]

\* POST /: is there a vote, what is sent to storage, the rest of the handler.
HasVote(body) == Truthy(body.language)

\* Faulty variant of VoteArg: the vote sent to storage ignores the body.
VoteArgFixed(body) == "go"

VoteArg(body) == body.language

\* `called` is FALSE when the handler skipped the storage call, and then
\* the local `options` is still undefined.
VoteError(called, options) ==
    IF called /\ options.ok THEN Null ELSE ErrorMessage

VoteReply(body, called, options) ==
    [BaseReply("POST /", body) EXCEPT
        !.op = IF called THEN "processVote" ELSE "none",
        !.result = IF called THEN options ELSE Falsy,
        !.results = TRUE,
        !.hasOptions = called /\ options.ok,
        !.optionNames =
            IF called /\ options.ok THEN MapLanguage(options.rows) ELSE <<>>,
        !.optionCounts =
            IF called /\ options.ok THEN MapPicks(options.rows) ELSE <<>>,
        !.error = VoteError(called, options)]

\* GET /logs
LogsCall == "getLogs"

LogsReply(body, history) ==
    [BaseReply("GET /logs", body) EXCEPT
        !.op = LogsCall, !.result = history,
        !.optionHistory = history,
        !.error = IF history.ok THEN Null ELSE ErrorMessage]

\* POST /reset: the authentication condition, the storage call of each
\* branch, the rest of the handler.
\* Faulty variant of AuthFailed: the comparison of the two keys is missing.
AuthFailedNoCompare(body, env) ==
    \/ ~Truthy(body.key)
    \/ LengthLt1(body.key)
    \/ ~Truthy(env)

AuthFailed(body, env) ==
    \/ ~Truthy(body.key)
    \/ LengthLt1(body.key)
    \/ ~Truthy(env)
    \/ body.key # env

\* Faulty variant of ResetCall: the authorized branch reads the log too.
ResetCallNeverClears(body, env) == "getLogs"

ResetCall(body, env) ==
    IF AuthFailed(body, env) THEN "getLogs" ELSE "clearHistory"

ResetError(op, history) ==
    IF op = "getLogs" THEN Undefined
    ELSE IF history.ok THEN Null ELSE ErrorMessage

ResetStatus(failed) == IF failed THEN 401 ELSE 200

ResetReply(body, op, history) ==
    [BaseReply("POST /reset", body) EXCEPT
        !.op = op, !.result = history,
        !.failed = (op = "getLogs"),
        !.optionHistory = history,
        !.error = ResetError(op, history),
        !.status = ResetStatus(op = "getLogs")]

(***************************************************************************)
(* State machine.                                                          *)
(***************************************************************************)
Init ==
    /\ choices \in InitialChoices
    /\ log = <<>>
    /\ adminKey \in AdminKeys
    /\ pc = [r \in Req |-> "idle"]
    /\ req = [r \in Req |-> NoReq]
    /\ reply = NoReply

\* The handler reaches its await: the storage call is in flight.
Await(r, route, body, op, arg) ==
    /\ pc' = [pc EXCEPT ![r] = "await"]
    /\ req' = [req EXCEPT ![r] =
                 [route |-> route, body |-> body, op |-> op, arg |-> arg]]
    /\ UNCHANGED <<choices, log, adminKey, reply>>

\* The handler ends without having awaited storage.
Answer(r, rep) ==
    /\ reply' = rep
    /\ UNCHANGED <<choices, log, adminKey, pc, req>>

GetHome(r) ==
    /\ pc[r] = "idle"
    /\ Await(r, "GET /", NoBody, HomeCall, Undefined)

PostVote(r, body) ==
    /\ pc[r] = "idle"
    /\ IF ~body.present
       THEN Answer(r, ThrownReply("POST /", body))
       ELSE IF HasVote(body)
            THEN Await(r, "POST /", body, "processVote", VoteArg(body))
            ELSE Answer(r, VoteReply(body, FALSE, Falsy))

GetLogs(r) ==
    /\ pc[r] = "idle"
    /\ Await(r, "GET /logs", NoBody, LogsCall, Undefined)

PostReset(r, body) ==
    /\ pc[r] = "idle"
    /\ IF ~body.present
       THEN Answer(r, ThrownReply("POST /reset", body))
       ELSE Await(r, "POST /reset", body, ResetCall(body, adminKey), Undefined)

\* What the handler of request q sends once storage resolved to `result`.
Continue(q, result) ==
    CASE q.route = "GET /"       -> HomeReply(q.body, result)
      [] q.route = "POST /"      -> VoteReply(q.body, TRUE, result)
      [] q.route = "GET /logs"   -> LogsReply(q.body, result)
      [] q.route = "POST /reset" -> ResetReply(q.body, q.op, result)

\* The awaited storage call runs, atomically, and the handler finishes.
Complete(r, ok) ==
    /\ pc[r] = "await"
    /\ LET out == Storage(req[r].op, req[r].arg, ok, choices, log)
       IN  /\ Len(out.log) <= MaxVotes
           /\ choices' = out.choices
           /\ log' = out.log
           /\ reply' = Continue(req[r], out.result)
    /\ pc' = [pc EXCEPT ![r] = "idle"]
    /\ req' = [req EXCEPT ![r] = NoReq]
    /\ UNCHANGED adminKey

Next ==
    \/ \E r \in Req : GetHome(r)
    \/ \E r \in Req, body \in VoteBodies : PostVote(r, body)
    \/ \E r \in Req : GetLogs(r)
    \/ \E r \in Req, body \in ResetBodies : PostReset(r, body)
    \/ \E r \in Req, ok \in BOOLEAN : Complete(r, ok)

Spec == Init /\ [][Next]_vars

(***************************************************************************)
(* Vocabulary of the properties.                                           *)
(***************************************************************************)
\* Request slot r gets its answer from storage in this step.
Completes(r) == pc[r] = "await" /\ pc'[r] = "idle"

\* Authorization as the specification words it: it fails unless both keys
\* are present, non-empty and exactly equal.
KeyRejected(key, env) ==
    \/ key \in {Undefined, ""}
    \/ env \in {Undefined, ""}
    \/ key # env

RECURSIVE SumPicks(_)
SumPicks(ch) == IF ch = <<>> THEN 0 ELSE ch[1].picks + SumPicks(Tail(ch))

AllZero(ch) == \A i \in DOMAIN ch : ch[i].picks = 0

Exists(ch, name) == \E i \in DOMAIN ch : ch[i].language = name

\* C1: every POST /reset is answered 401 exactly when the body key is missing
\* or empty, ADMIN_KEY is missing or empty, or the two differ, and 200 in
\* every other case; the failure flag is raised in exactly the 401 cases.
C1_ResetStatus ==
    reply.route = "POST /reset" =>
        LET fails == KeyRejected(reply.body.key, adminKey)
        IN  /\ reply.failed <=> fails
            /\ reply.status = 401 <=> fails
            /\ ~fails => reply.status = 200

\* C2: a POST /reset that fails authorization never clears: the step that
\* answers it leaves every option's picks and the vote log as they were, and
\* its reply carries the failure flag and the history read from storage.
C2_AuthFailureFrame ==
    /\ [](reply.route = "POST /reset"
            /\ KeyRejected(reply.body.key, adminKey)
          => /\ reply.failed
             /\ reply.op = "getLogs"
             /\ reply.optionHistory = reply.result)
    /\ [][\A r \in Req :
            Completes(r) /\ req[r].route = "POST /reset"
              /\ KeyRejected(req[r].body.key, adminKey)
            => /\ UNCHANGED <<choices, log>>
               /\ reply'.optionHistory.ok
                    => reply'.optionHistory.rows = log]_vars

\* C3: the step in which a POST /reset with the correct key gets a successful
\* clear from storage leaves every option's picks at 0 and the vote log
\* empty, and its reply carries that empty log with status 200 and no flag.
C3_ResetClears ==
    [][\A r \in Req :
         Completes(r) /\ req[r].route = "POST /reset"
           /\ ~KeyRejected(req[r].body.key, adminKey)
           /\ reply'.result.ok
         => /\ AllZero(choices')
            /\ log' = <<>>
            /\ reply'.optionHistory = Rows(log')
            /\ reply'.status = 200
            /\ ~reply'.failed]_vars

C3_Witness ==
    /\ reply.route = "POST /reset"
    /\ reply.op = "clearHistory"
    /\ reply.result.ok
    /\ choices # <<>>
    /\ AllZero(choices)
    /\ log = <<>>

\* C4: in every reachable state, whatever requests are in flight, the sum of
\* picks over all options equals the number of entries of the vote log.
C4_TallyMatchesLog == SumPicks(choices) = Len(log)

C4_Witness ==
    /\ Len(log) >= 2
    /\ \E i \in DOMAIN choices : choices[i].picks = 1
    /\ \E r \in Req : pc[r] = "await" /\ req[r].op = "processVote"
    /\ \E r \in Req : pc[r] = "await" /\ req[r].op = "clearHistory"

\* C5: the step in which storage applies the vote of a POST / that names an
\* existing option raises that option's picks by exactly 1, leaves the other
\* options' picks alone and appends exactly one log entry; and no step at all
\* changes the list of option names.
C5_VoteEffect ==
    [][/\ MapLanguage(choices') = MapLanguage(choices)
       /\ \A r \in Req :
            Completes(r) /\ req[r].route = "POST /"
              /\ Exists(choices, req[r].body.language)
              /\ reply'.result.ok
            => /\ \A i \in DOMAIN choices :
                    choices'[i].picks =
                        IF choices[i].language = req[r].body.language
                        THEN choices[i].picks + 1 ELSE choices[i].picks
               /\ Len(log') = Len(log) + 1
               /\ SubSeq(log', 1, Len(log)) = log]_vars

C5_Witness ==
    /\ reply.route = "POST /"
    /\ reply.body.language = "rust"
    /\ reply.result.ok
    /\ \E i \in DOMAIN choices :
         choices[i].language = "rust" /\ choices[i].picks >= 1

\* C6: a POST / whose option name is empty or absent is answered normally,
\* without the storage vote operation having been invoked, and the step that
\* answers it leaves every option's picks and the vote log as they were.
C6_EmptyVoteNoOp ==
    /\ [](reply.route = "POST /" /\ ~Truthy(reply.body.language)
          => reply.op = "none" /\ reply.status = 200)
    /\ [][reply' # reply /\ reply'.route = "POST /"
            /\ ~Truthy(reply'.body.language)
          => UNCHANGED <<choices, log>>]_vars

\* C7: the reply to a POST / with no vote payload carries no error message,
\* and a POST / reply carries an error message only when the storage vote
\* operation was invoked and resolved falsy.
C7_NoVoteNoError ==
    reply.route = "POST /" =>
        /\ ~Truthy(reply.body.language) => reply.error \in {Null, Undefined}
        /\ reply.error = ErrorMessage
             => reply.op = "processVote" /\ ~reply.result.ok

\* C8: whichever handler called storage, its reply carries the generic error
\* message when the storage call resolved falsy and no error otherwise.
C8_StorageErrorSurfaced ==
    reply.op # "none" =>
        /\ ~reply.result.ok => reply.error = ErrorMessage
        /\ reply.result.ok => reply.error \in {Null, Undefined}

\* C9: no step lowers any option's picks unless it is the step in which a
\* POST /reset with the correct key gets a successful clear from storage, and
\* that step leaves every option's picks at exactly 0.
C9_MonotoneBetweenResets ==
    [][LET cleared == \E r \in Req :
                        /\ Completes(r) /\ req[r].route = "POST /reset"
                        /\ ~KeyRejected(req[r].body.key, adminKey)
                        /\ reply'.result.ok
       IN  /\ DOMAIN choices' = DOMAIN choices
           /\ cleared => AllZero(choices')
           /\ ~cleared => \A i \in DOMAIN choices :
                             choices'[i].picks >= choices[i].picks]_vars

C9_Witness ==
    /\ reply.route = "POST /reset"
    /\ reply.status = 401
    /\ Len(log) >= 1
    /\ \E r \in Req : pc[r] = "await" /\ req[r].op = "clearHistory"

\* C10: the steps that answer GET / and GET /logs leave the options and the
\* vote log as they were (these change only in steps answering POST / and
\* POST /reset), a successful GET / returns the stored names and counts in
\* stored order, and a successful GET / answered right after another one
\* returns the same names and counts in the same order.
C10_ReadsHaveNoEffect ==
    [][/\ \A r \in Req :
            Completes(r) /\ req[r].route \in {"GET /", "GET /logs"}
            => UNCHANGED <<choices, log>>
       /\ <<choices, log>>' # <<choices, log>>
            => \E r \in Req :
                 Completes(r) /\ req[r].route \in {"POST /", "POST /reset"}
       /\ \A r \in Req :
            Completes(r) /\ req[r].route = "GET /" /\ reply'.result.ok
            => /\ reply'.optionNames = MapLanguage(choices)
               /\ reply'.optionCounts = MapPicks(choices)
               /\ reply.route = "GET /" /\ reply.result.ok
                    => /\ reply'.optionNames = reply.optionNames
                       /\ reply'.optionCounts = reply.optionCounts]_vars

C10_Witness ==
    /\ reply.route = "GET /"
    /\ reply.result.ok
    /\ Len(log) >= 1
    /\ reply.optionCounts = MapPicks(choices)
    /\ \E r \in Req : pc[r] = "await" /\ req[r].route = "GET /"

====
